---------------------------- MODULE Spec2Model ----------------------------
(***************************************************************************)
(* A model of app.py, the Azure OpenAI proxy: the fixed-window rate        *)
(* limiter, the response cache, the tenacity retry wrapper around the      *)
(* upstream call, the chat_completions handler that composes them, the     *)
(* streaming generator and the startup self-check.                         *)
(*                                                                         *)
(* Time is the integer `now` (time.time() in seconds).  The handler is an  *)
(* `async def` with no await in it, so it runs on the event loop from its  *)
(* first statement to its return; `loop` names the request that occupies   *)
(* the event loop.  Only a streaming response gives the loop back between  *)
(* two events.                                                             *)
(***************************************************************************)
EXTENDS Integers, Sequences, FiniteSets, TLC

(***************************************************************************)
(* Bounds of the model.                                                    *)
(***************************************************************************)
NumReq == 2         \* request slots: requests in flight at once
MaxRequests == 2    \* requests the server accepts over one run
MaxTime == 300      \* the clock stops here
MaxChunks == 2      \* chunks one upstream stream delivers at most
MaxProbes == 53     \* calls a function-level specification makes at most
MaxStreamChunks == 3  \* chunks of the stream where the generator runs alone

(***************************************************************************)
(* Program constants.                                                      *)
(***************************************************************************)
RATE_WINDOW == 60           \* app.py:123
RATE_LIMIT == 50            \* app.py:128
CACHE_TTL == 300            \* app.py:140
MAX_ATTEMPTS == 3           \* app.py:158
WAIT_MULTIPLIER == 1        \* app.py:159
WAIT_MIN == 2               \* app.py:159
WAIT_MAX == 10              \* app.py:159
EXP_BASE == 2               \* tenacity's default exp_base of wait_exponential
DEFAULT_MAX_TOKENS == 1000  \* app.py:264
None == -1                  \* an Optional field that is unset

Req == 1 .. NumReq
NoReq == 0

(***************************************************************************)
(* Inputs.  A request is the parsed ChatCompletionRequest; only the fields *)
(* the handler reads are kept.  temperature is in tenths.                  *)
(***************************************************************************)
Messages == {"hi"}
Models == {"m"}
MaxTokensIn == {None, 100}
Temperatures == {7}
ChatCompletionRequest ==
    [messages : Messages, model : Models, max_tokens : MaxTokensIn,
     temperature : Temperatures, stream : BOOLEAN]

\* What the upstream service answers to a completion call.
Responses == {"completion_a", "completion_b"}
NoResponse == "None"

\* The clock is read in steps of a third of the cache's freshness window
\* (more than one rate window) by the server, and in steps of half a rate
\* window where the rate limiter is called alone.
TickSteps == {CACHE_TTL \div 3}
LimiterTickSteps == {RATE_WINDOW \div 2}

VARIABLES
    now,               \* time.time()
    azure_credential,  \* _azure_credential: None or the cached credential
    request_cache,     \* _request_cache: cache key -> response
    cache_timestamps,  \* _cache_timestamps: cache key -> time of the store
    request_counts,    \* _request_counts["total"] (a defaultdict: absent is 0)
    last_reset_time,   \* _last_reset_time
    phase,             \* lifespan: "starting", "serving" or "failed"
    loop,              \* the request whose handler occupies the event loop
    pc,                \* per request slot: where its handler stands
    request,           \* per request slot: the request being handled
    frame,             \* per request slot: the handler's local variables
    outcome,           \* per request slot: what the client is sent
    events,            \* per request slot: the events of its streamed body
    accepted,          \* requests accepted so far
    probe              \* function-level specifications: the last call's record

sharedVars == <<azure_credential, request_cache, cache_timestamps,
                request_counts, last_reset_time>>
slotVars == <<pc, request, frame, outcome, events, loop, accepted>>
vars == <<now, azure_credential, request_cache, cache_timestamps,
          request_counts, last_reset_time, phase, loop, pc, request, frame,
          outcome, events, accepted, probe>>

(***************************************************************************)
(* The rate limiter: check_rate_limit.                                     *)
(***************************************************************************)
WindowElapsed_strict(t, last) == t - last > RATE_WINDOW

WindowElapsed_always(t, last) == TRUE

\* app.py:123: the window is over
WindowElapsed(t, last) == t - last >= RATE_WINDOW

AtCeiling_off_by_one(total) == total > RATE_LIMIT

\* app.py:128: the ceiling is reached
AtCeiling(total) == total >= RATE_LIMIT

CountAfterAdmit_lost(total) == total

\* app.py:131
CountAfterAdmit(total) == total + 1

\* check_rate_limit: the return value and the two globals after the call.
check_rate_limit(total, last, t) ==
    LET reset == WindowElapsed(t, last)
        total1 == IF reset THEN 0 ELSE total
        last1 == IF reset THEN t ELSE last
    IN  IF AtCeiling(total1)
        THEN [ret |-> FALSE, total |-> total1, last |-> last1]
        ELSE [ret |-> TRUE, total |-> CountAfterAdmit(total1), last |-> last1]

(***************************************************************************)
(* The response cache: get_cached_response and cache_response.             *)
(***************************************************************************)
Fresh_inclusive(t, stamp) == t - stamp <= CACHE_TTL

\* app.py:140: the entry is still fresh
Fresh(t, stamp) == t - stamp < CACHE_TTL

\* dict.get(key, 0)
GetOr0(d, k) == IF k \in DOMAIN d THEN d[k] ELSE 0

\* del d[k]
Del(d, k) == [x \in DOMAIN d \ {k} |-> d[x]]

\* d[k] = v
Put(d, k, v) == [x \in DOMAIN d \cup {k} |-> IF x = k THEN v ELSE d[x]]

\* get_cached_response: the return value and the two dicts after the call.
get_cached_response(cache, stamps, k, t) ==
    IF k \in DOMAIN cache
    THEN IF Fresh(t, GetOr0(stamps, k))
         THEN [ret |-> cache[k], cache |-> cache, stamps |-> stamps]
         ELSE [ret |-> NoResponse, cache |-> Del(cache, k),
               stamps |-> Del(stamps, k)]
    ELSE [ret |-> NoResponse, cache |-> cache, stamps |-> stamps]

\* cache_response: the two dicts after the call.
cache_response(cache, stamps, k, r, t) ==
    [cache |-> Put(cache, k, r), stamps |-> Put(stamps, k, t)]


(***************************************************************************)
(* The request fingerprint: get_cache_key.                                 *)
(***************************************************************************)
\* The keys of the hashed object in the order sort_keys=True writes them.
SortedKeys == <<"max_tokens", "messages", "model", "temperature">>

\* json.dumps(obj, sort_keys=True): the members of obj in key order
JsonDumps(obj) == [i \in 1 .. Len(SortedKeys) |-> <<SortedKeys[i], obj[SortedKeys[i]]>>]

\* hashlib.md5(content).hexdigest(): a digest that tells contents apart
Md5HexDigest(content) == <<"md5", content>>

\* get_cache_key(messages, model, max_tokens, temperature)
get_cache_key(messages, model, max_tokens, temperature) ==
    Md5HexDigest(JsonDumps([messages |-> messages, model |-> model,
                            max_tokens |-> max_tokens,
                            temperature |-> temperature]))

\* app.py:264: request.max_tokens or 1000 (None and 0 are both falsy)
ResolvedMaxTokens(max_tokens) ==
    IF max_tokens = None \/ max_tokens = 0 THEN DEFAULT_MAX_TOKENS ELSE max_tokens

\* app.py:261-266: the key the handler computes for a request
RequestKey(req) ==
    get_cache_key(req.messages, req.model, ResolvedMaxTokens(req.max_tokens),
                  req.temperature)

CacheKeys == {RequestKey(req) : req \in ChatCompletionRequest}
NoKey == <<>>

(***************************************************************************)
(* Exceptions.  A message is a sequence of tokens, so that the handler's   *)
(* substring tests are computed on it.                                     *)
(***************************************************************************)
\* The exception classes an upstream call raises.
UpstreamErrors == {"APIConnectionError", "RateLimitError"}

\* str() of an upstream exception
UpstreamMessage(cls) ==
    IF cls = "RateLimitError"
    THEN <<"Error code: ", "429", " - rate limit is exceeded">>
    ELSE <<"Connection error.">>

NoCause == [cls |-> "None", text |-> <<>>]
NoException == [cls |-> "None", text |-> <<>>, status |-> 0, cause |-> NoCause]

\* an exception raised by client.chat.completions.create
UpstreamException(cls) ==
    [cls |-> cls, text |-> UpstreamMessage(cls), status |-> 0, cause |-> NoCause]

\* app.py:258: HTTPException(status_code=429, detail="Too Many Requests")
HTTPException(status, detail) ==
    [cls |-> "HTTPException", text |-> <<detail>>, status |-> status,
     cause |-> NoCause]

\* an exception raised while the client is constructed (test_app.py:226)
ClientException == 
    [cls |-> "Exception", text |-> <<"Connection failed">>, status |-> 0,
     cause |-> NoCause]

\* tenacity, reraise not set: after the last attempt the Retrying object
\* raises RetryError(last_attempt) from the attempt's exception
RetryError(last) ==
    [cls |-> "RetryError", text |-> <<>>, status |-> 0,
     cause |-> [cls |-> last.cls, text |-> last.text]]

StatusText(status) == IF status = 429 THEN "429" ELSE "500"

\* str(e), app.py:298.  HTTPException has a __str__ ("429: Too Many
\* Requests") from Starlette 0.29 on and none before (str(e) is empty: the
\* exception is constructed with keyword arguments only); RetryError prints
\* its class and the finished Future, not the message of the cause: the
\* Future prints with its address, whose hex digits may happen to hold 429.
Str(e) ==
    CASE e.cls = "HTTPException" ->
            {<<>>, <<StatusText(e.status), ": ">> \o e.text}
      [] e.cls = "RetryError" ->
            {<<"RetryError[", "<Future at 0x7f3a5c01d2b0 state=finished raised ",
               e.cause.cls, ">]">>,
             <<"RetryError[", "<Future at 0x7f3a5c01d", "429",
               "0 state=finished raised ", e.cause.cls, ">]">>}
      [] OTHER -> {e.text}

\* "sub" in s
Contains(s, sub) == \E i \in 1 .. Len(s) : s[i] = sub

\* app.py:295-300: what the handler's except clause raises to the client
HandleException(s) ==
    IF Contains(s, "429") \/ Contains(s, "Too Many Requests")
    THEN [status |-> 429, detail |-> <<"Azure OpenAI rate limit exceeded">>,
          body |-> NoResponse]
    ELSE [status |-> 500, detail |-> s, body |-> NoResponse]

\* a 200 response with this body
Ok(body) == [status |-> 200, detail |-> <<>>, body |-> body]
NoOutcome == [status |-> 0, detail |-> <<>>, body |-> NoResponse]

(***************************************************************************)
(* The retry policy of create_chat_completion (the tenacity decorator).    *)
(***************************************************************************)
stop_after_attempt_late(attempt_number) == attempt_number > MAX_ATTEMPTS

stop_after_attempt_never(attempt_number) == FALSE

\* stop_after_attempt(3)
stop_after_attempt(attempt_number) == attempt_number >= MAX_ATTEMPTS

Max(a, b) == IF a >= b THEN a ELSE b
Min(a, b) == IF a <= b THEN a ELSE b

wait_exponential_from_base(attempt_number) ==
    Max(Max(0, WAIT_MIN), Min(WAIT_MULTIPLIER * EXP_BASE ^ attempt_number, WAIT_MAX))

\* wait_exponential(multiplier=1, min=2, max=10), called with the number of
\* the attempt that just failed:
\*   exp = exp_base ** (attempt_number - 1); result = multiplier * exp
\*   return max(max(0, min), min(result, max))
wait_exponential(attempt_number) ==
    Max(Max(0, WAIT_MIN),
        Min(WAIT_MULTIPLIER * EXP_BASE ^ (attempt_number - 1), WAIT_MAX))

(***************************************************************************)
(* The credential and the client.                                          *)
(***************************************************************************)
\* An object is its class and its identity: the n-th instance of the class
\* that was constructed.
NoCredential == [cls |-> "None", id |-> 0]
ClientSecretCredential(n) == [cls |-> "ClientSecretCredential", id |-> n]
AzureOpenAI(n) == [cls |-> "AzureOpenAI", id |-> n]
NoObject == [cls |-> "None", id |-> 0]

\* the credential of a server that has called get_azure_credential
Credential == ClientSecretCredential(1)

get_azure_credential_uncached(cred, made) ==
    [ret |-> ClientSecretCredential(made + 1),
     cred |-> ClientSecretCredential(made + 1), made |-> made + 1]

\* get_azure_credential, where `made` credentials were constructed before:
\* the return value, the global and the number constructed after the call
get_azure_credential(cred, made) ==
    IF cred = NoCredential
    THEN [ret |-> ClientSecretCredential(made + 1),
          cred |-> ClientSecretCredential(made + 1), made |-> made + 1]
    ELSE [ret |-> cred, cred |-> cred, made |-> made]

get_openai_client_cached(cred, creds_made, clients_made) ==
    LET c == get_azure_credential(cred, creds_made)
    IN  [ret |-> AzureOpenAI(1), cred |-> c.cred, creds_made |-> c.made,
         clients_made |-> 1]

\* get_openai_client, where `clients_made` clients were constructed before:
\* it gets the credential and constructs a client
get_openai_client(cred, creds_made, clients_made) ==
    LET c == get_azure_credential(cred, creds_made)
    IN  [ret |-> AzureOpenAI(clients_made + 1), cred |-> c.cred,
         creds_made |-> c.made, clients_made |-> clients_made + 1]

\* The global after a call of get_openai_client by the server, which never
\* clears it: where it is None, no credential was constructed before.
CredentialAfterClient(cred) == get_openai_client(cred, 0, 0).cred

(***************************************************************************)
(* The state of a request slot.                                            *)
(***************************************************************************)
NoRequest ==
    [messages |-> "None", model |-> "None", max_tokens |-> None,
     temperature |-> 0, stream |-> FALSE]

\* The handler's locals, and what it has called so far for this request.
NoFrame ==
    [admitted |-> FALSE,          \* what check_rate_limit returned
     cache_key |-> NoKey,         \* cache_key
     cached |-> NoResponse,       \* cached_response
     lookups |-> 0,               \* calls of get_cached_response
     clients |-> 0,               \* calls of get_openai_client
     attempt_number |-> 0,        \* tenacity's attempt_number
     attempts |-> <<>>,           \* how each upstream attempt ended
     raised |-> NoException,      \* what the last failed attempt raised
     waits |-> <<>>,              \* the sleeps between the attempts
     exc |-> NoException,         \* the exception the except clause caught
     opens |-> 0,                 \* upstream streaming calls
     received |-> 0,              \* chunks read from the upstream stream
     chunks |-> <<>>]             \* per chunk read: whether it has choices

NoProbe ==
    [fn |-> "None", calls |-> 0, ret_bool |-> FALSE, ret |-> NoResponse,
     key |-> NoKey, at |-> 0, total_before |-> 0, last_before |-> 0,
     stored |-> <<>>, obj |-> NoObject, cred_calls |-> 0, client_calls |-> 0,
     creds_made |-> 0, clients_made |-> 0, req |-> NoRequest,
     prev_req |-> NoRequest, prev_key |-> NoKey, admit_times |-> <<>>]

\* The state after app.py is imported: empty cache, empty window starting
\* now, no credential, the server not yet started.
Init ==
    /\ now = 0
    /\ azure_credential = NoCredential
    /\ request_cache = <<>>
    /\ cache_timestamps = <<>>
    /\ request_counts = 0
    /\ last_reset_time = 0
    /\ phase = "starting"
    /\ loop = NoReq
    /\ pc = [r \in Req |-> "idle"]
    /\ request = [r \in Req |-> NoRequest]
    /\ frame = [r \in Req |-> NoFrame]
    /\ outcome = [r \in Req |-> NoOutcome]
    /\ events = [r \in Req |-> <<>>]
    /\ accepted = 0
    /\ probe = NoProbe

(***************************************************************************)
(* Time passes.                                                            *)
(***************************************************************************)
\* The clock is read in whole TickSteps, so it moves where the server waits:
\* for a request while the event loop is free, in an upstream call, in a
\* sleep between two attempts.
Tick ==
    /\ IF loop = NoReq THEN TRUE
       ELSE pc[loop] \in {"call", "backoff", "open", "iterate"}
    /\ \E d \in TickSteps : now + d <= MaxTime /\ now' = now + d
    /\ UNCHANGED <<sharedVars, slotVars, phase, probe>>

(***************************************************************************)
(* lifespan: the startup self-check.                                       *)
(***************************************************************************)
\* get_openai_client and the test request succeed: the server starts serving
StartupOk ==
    /\ phase = "starting"
    /\ azure_credential' = CredentialAfterClient(azure_credential)
    /\ phase' = "serving"
    /\ UNCHANGED <<now, request_cache, cache_timestamps, request_counts,
                   last_reset_time, slotVars, probe>>

\* the test request raises: the exception is raised again, startup aborts
StartupFail ==
    /\ phase = "starting"
    /\ azure_credential' = CredentialAfterClient(azure_credential)
    /\ phase' = "failed"
    /\ UNCHANGED <<now, request_cache, cache_timestamps, request_counts,
                   last_reset_time, slotVars, probe>>

(***************************************************************************)
(* chat_completions.                                                       *)
(***************************************************************************)
\* The except clause of the handler catches e: the slot ends with what it
\* raises to the client.
Caught(r, e, fr) ==
    /\ \E s \in Str(e) : outcome' = [outcome EXCEPT ![r] = HandleException(s)]
    /\ frame' = [frame EXCEPT ![r] = [fr EXCEPT !.exc = e]]
    /\ pc' = [pc EXCEPT ![r] = "done"]

Serving_always(ph) == TRUE

\* app.py:184: the application takes requests once lifespan has reached its
\* yield (the server waits for the startup of the lifespan to complete, and
\* exits when it raises)
Serving(ph) == ph = "serving"

\* app.py:252-258: a request arrives, the handler starts and checks the
\* rate limit
Admit(r, req) ==
    /\ Serving(phase)
    /\ loop = NoReq
    /\ pc[r] = "idle"
    /\ \A q \in Req : q < r => pc[q] # "idle"    \* the first free slot
    /\ accepted < MaxRequests
    /\ LET rl == check_rate_limit(request_counts, last_reset_time, now)
           fr == [NoFrame EXCEPT !.admitted = rl.ret]
       IN  /\ request_counts' = rl.total
           /\ last_reset_time' = rl.last
           /\ IF rl.ret
              THEN /\ pc' = [pc EXCEPT ![r] = "lookup"]
                   /\ frame' = [frame EXCEPT ![r] = fr]
                   /\ UNCHANGED outcome
              ELSE Caught(r, HTTPException(429, "Too Many Requests"), fr)
    /\ request' = [request EXCEPT ![r] = req]
    /\ loop' = r
    /\ accepted' = accepted + 1
    /\ UNCHANGED <<now, azure_credential, request_cache, cache_timestamps,
                   phase, events, probe>>

Truthy_never(response) == FALSE

\* app.py:268: if cached_response
Truthy(response) == response # NoResponse

\* app.py:260-269: the cache key and the cache lookup
Lookup(r) ==
    /\ loop = r
    /\ pc[r] = "lookup"
    /\ LET k == RequestKey(request[r])
           got == get_cached_response(request_cache, cache_timestamps, k, now)
           fr == [frame[r] EXCEPT !.cache_key = k, !.cached = got.ret,
                                  !.lookups = @ + 1]
       IN  /\ request_cache' = got.cache
           /\ cache_timestamps' = got.stamps
           /\ frame' = [frame EXCEPT ![r] = fr]
           /\ IF Truthy(got.ret)
              THEN /\ outcome' = [outcome EXCEPT ![r] = Ok(got.ret)]
                   /\ pc' = [pc EXCEPT ![r] = "done"]
              ELSE /\ pc' = [pc EXCEPT ![r] = "client"]
                   /\ UNCHANGED outcome
    /\ UNCHANGED <<now, azure_credential, request_counts, last_reset_time,
                   phase, loop, request, events, accepted, probe>>

IsStreaming_never(req) == FALSE

\* app.py:279: if request.stream
IsStreaming(req) == req.stream

\* app.py:271-285: get_openai_client returns; a streaming request is
\* answered with the StreamingResponse, whose generator has not started
GetClient(r) ==
    /\ loop = r
    /\ pc[r] = "client"
    /\ azure_credential' = CredentialAfterClient(azure_credential)
    /\ IF IsStreaming(request[r])
       THEN /\ pc' = [pc EXCEPT ![r] = "stream"]
            /\ outcome' = [outcome EXCEPT ![r] = Ok("stream")]
            /\ frame' = [frame EXCEPT ![r].clients = @ + 1]
            /\ loop' = NoReq
       ELSE /\ pc' = [pc EXCEPT ![r] = "call"]
            /\ frame' = [frame EXCEPT ![r].clients = @ + 1,
                                      ![r].attempt_number = 1]
            /\ UNCHANGED <<outcome, loop>>
    /\ UNCHANGED <<now, request_cache, cache_timestamps, request_counts,
                   last_reset_time, phase, request, events, accepted, probe>>

\* app.py:272: get_openai_client raises
GetClientFail(r) ==
    /\ loop = r
    /\ pc[r] = "client"
    /\ azure_credential' = CredentialAfterClient(azure_credential)
    /\ Caught(r, ClientException, [frame[r] EXCEPT !.clients = @ + 1])
    /\ UNCHANGED <<now, request_cache, cache_timestamps, request_counts,
                   last_reset_time, phase, loop, request, events, accepted,
                   probe>>

\* app.py:288-293: an attempt of create_chat_completion returns; the
\* response is cached and returned
CallOk(r, resp) ==
    /\ loop = r
    /\ pc[r] = "call"
    /\ LET put == cache_response(request_cache, cache_timestamps,
                                 frame[r].cache_key, resp, now)
       IN  /\ request_cache' = put.cache
           /\ cache_timestamps' = put.stamps
    /\ frame' = [frame EXCEPT ![r].attempts = Append(@, "ok")]
    /\ outcome' = [outcome EXCEPT ![r] = Ok(resp)]
    /\ pc' = [pc EXCEPT ![r] = "done"]
    /\ UNCHANGED <<now, azure_credential, request_counts, last_reset_time,
                   phase, loop, request, events, accepted, probe>>

\* app.py:157-164: an attempt raises; tenacity stops after the third
\* attempt, and sleeps before another one otherwise
CallFail(r, cls) ==
    /\ loop = r
    /\ pc[r] = "call"
    /\ LET fr == [frame[r] EXCEPT !.attempts = Append(@, "raised"),
                                  !.raised = UpstreamException(cls)]
       IN  IF stop_after_attempt(fr.attempt_number)
           THEN Caught(r, RetryError(UpstreamException(cls)), fr)
           ELSE /\ frame' = [frame EXCEPT ![r] =
                      [fr EXCEPT !.waits =
                          Append(@, wait_exponential(fr.attempt_number))]]
                /\ pc' = [pc EXCEPT ![r] = "backoff"]
                /\ UNCHANGED outcome
    /\ UNCHANGED <<now, sharedVars, phase, loop, request, events, accepted,
                   probe>>

Wake_counting(r) ==
    /\ loop = r
    /\ pc[r] = "backoff"
    /\ frame' = [frame EXCEPT ![r].attempt_number = @ + 1]
    /\ pc' = [pc EXCEPT ![r] = "call"]
    /\ request_counts' = CountAfterAdmit(request_counts)
    /\ UNCHANGED <<now, azure_credential, request_cache, cache_timestamps,
                   last_reset_time, phase, loop, request, outcome, events,
                   accepted, probe>>

\* the sleep is over: the next attempt
Wake(r) ==
    /\ loop = r
    /\ pc[r] = "backoff"
    /\ frame' = [frame EXCEPT ![r].attempt_number = @ + 1]
    /\ pc' = [pc EXCEPT ![r] = "call"]
    /\ UNCHANGED <<now, sharedVars, phase, loop, request, outcome, events,
                   accepted, probe>>

\* the response has been sent: the slot is free again
Respond(r) ==
    /\ loop = r
    /\ pc[r] = "done"
    /\ pc' = [pc EXCEPT ![r] = "idle"]
    /\ request' = [request EXCEPT ![r] = NoRequest]
    /\ frame' = [frame EXCEPT ![r] = NoFrame]
    /\ outcome' = [outcome EXCEPT ![r] = NoOutcome]
    /\ events' = [events EXCEPT ![r] = <<>>]
    /\ loop' = NoReq
    /\ UNCHANGED <<now, sharedVars, phase, accepted, probe>>

(***************************************************************************)
(* stream_chat_response: the generator of a streaming response.  It runs   *)
(* on the event loop from one yield to the next.                           *)
(***************************************************************************)
DataEvent(i) == <<"data: ", i>>
DoneEvent == <<"data: ", "[DONE]">>
ErrorEvent(s) == <<"data: ", "error", s>>

\* the response starts to iterate the generator, or asks for the next event
StreamResume(r) ==
    /\ loop = NoReq
    /\ pc[r] \in {"stream", "suspended"}
    /\ pc' = [pc EXCEPT ![r] = IF pc[r] = "stream" THEN "open" ELSE "iterate"]
    /\ loop' = r
    /\ UNCHANGED <<now, sharedVars, phase, request, frame, outcome, events,
                   accepted, probe>>

\* app.py:306: the upstream streaming call returns
StreamOpenOk(r) ==
    /\ loop = r
    /\ pc[r] = "open"
    /\ frame' = [frame EXCEPT ![r].opens = @ + 1]
    /\ pc' = [pc EXCEPT ![r] = "iterate"]
    /\ UNCHANGED <<now, sharedVars, phase, loop, request, outcome, events,
                   accepted, probe>>

StreamCaught_silent(r, e) ==
    /\ UNCHANGED events
    /\ pc' = [pc EXCEPT ![r] = "done"]

\* app.py:314-316: the generator catches e and yields one error event
StreamCaught(r, e) ==
    /\ \E s \in Str(e) : events' = [events EXCEPT ![r] = Append(@, ErrorEvent(s))]
    /\ pc' = [pc EXCEPT ![r] = "done"]

StreamOpenFail_retried(r, cls) ==
    /\ loop = r
    /\ pc[r] = "open"
    /\ frame' = [frame EXCEPT ![r].opens = @ + 1]
    /\ UNCHANGED <<now, sharedVars, phase, loop, pc, request, outcome, events,
                   accepted, probe>>

\* app.py:306: the upstream streaming call raises
StreamOpenFail(r, cls) ==
    /\ loop = r
    /\ pc[r] = "open"
    /\ frame' = [frame EXCEPT ![r].opens = @ + 1,
                              ![r].exc = UpstreamException(cls)]
    /\ StreamCaught(r, UpstreamException(cls))
    /\ UNCHANGED <<now, sharedVars, phase, loop, request, outcome, accepted,
                   probe>>

HasChoices_always(choices) == TRUE

\* app.py:309: if chunk.choices
HasChoices(choices) == choices

\* app.py:308-310: the next chunk of a stream of at most n chunks; one with
\* choices is yielded as an event
StreamChunkUpTo(r, choices, n) ==
    /\ loop = r
    /\ pc[r] = "iterate"
    /\ frame[r].received < n
    /\ frame' = [frame EXCEPT ![r].received = @ + 1,
                              ![r].chunks = Append(@, choices)]
    /\ IF HasChoices(choices)
       THEN /\ events' = [events EXCEPT ![r] =
                             Append(@, DataEvent(frame[r].received + 1))]
            /\ pc' = [pc EXCEPT ![r] = "suspended"]
            /\ loop' = NoReq
       ELSE UNCHANGED <<events, pc, loop>>
    /\ UNCHANGED <<now, sharedVars, phase, request, outcome, accepted, probe>>

StreamChunk(r, choices) == StreamChunkUpTo(r, choices, MaxChunks)

\* app.py:312: the upstream stream is over
StreamEnd(r) ==
    /\ loop = r
    /\ pc[r] = "iterate"
    /\ events' = [events EXCEPT ![r] = Append(@, DoneEvent)]
    /\ pc' = [pc EXCEPT ![r] = "done"]
    /\ UNCHANGED <<now, sharedVars, phase, loop, request, frame, outcome,
                   accepted, probe>>

\* app.py:308: reading the next chunk raises
StreamFail(r, cls) ==
    /\ loop = r
    /\ pc[r] = "iterate"
    /\ frame' = [frame EXCEPT ![r].exc = UpstreamException(cls)]
    /\ StreamCaught(r, UpstreamException(cls))
    /\ UNCHANGED <<now, sharedVars, phase, loop, request, outcome, accepted,
                   probe>>

(***************************************************************************)
(* The server.                                                             *)
(***************************************************************************)
Serve ==
    \/ Tick
    \/ \E r \in Req : \E req \in ChatCompletionRequest : Admit(r, req)
    \/ \E r \in Req : Lookup(r)
    \/ \E r \in Req : GetClient(r)
    \/ \E r \in Req : GetClientFail(r)
    \/ \E r \in Req : \E resp \in Responses : CallOk(r, resp)
    \/ \E r \in Req : \E cls \in UpstreamErrors : CallFail(r, cls)
    \/ \E r \in Req : Wake(r)
    \/ \E r \in Req : Respond(r)
    \/ \E r \in Req : StreamResume(r)
    \/ \E r \in Req : StreamOpenOk(r)
    \/ \E r \in Req : \E cls \in UpstreamErrors : StreamOpenFail(r, cls)
    \/ \E r \in Req : \E c \in BOOLEAN : StreamChunk(r, c)
    \/ \E r \in Req : StreamEnd(r)
    \/ \E r \in Req : \E cls \in UpstreamErrors : StreamFail(r, cls)

Next ==
    \/ StartupOk
    \/ StartupFail
    \/ Serve

Spec == Init /\ [][Next]_vars

(***************************************************************************)
(* The server where whatever a request waits for happens in the end: the   *)
(* event loop runs the handler it has started, an upstream call returns or *)
(* raises, a sleep ends, the response iterates its generator when the      *)
(* event loop is free, and an upstream stream delivers its next chunk,     *)
(* ends or fails (it has MaxChunks chunks at most).                        *)
(***************************************************************************)
Progress(r) ==
    /\ WF_vars(Lookup(r))
    /\ WF_vars(GetClient(r) \/ GetClientFail(r))
    /\ WF_vars((\E resp \in Responses : CallOk(r, resp))
               \/ (\E cls \in UpstreamErrors : CallFail(r, cls)))
    /\ WF_vars(Wake(r))
    /\ WF_vars(Respond(r))
    /\ WF_vars(StreamResume(r))
    /\ WF_vars(StreamOpenOk(r)
               \/ (\E cls \in UpstreamErrors : StreamOpenFail(r, cls)))
    /\ WF_vars((\E c \in BOOLEAN : StreamChunk(r, c))
               \/ StreamEnd(r)
               \/ (\E cls \in UpstreamErrors : StreamFail(r, cls)))

SpecLive == Init /\ [][Next]_vars /\ \A r \in Req : Progress(r)

(***************************************************************************)
(* The server at the end of a busy window: it has started, and all but one *)
(* of the admissions of the first window are used up by requests that are  *)
(* over and left nothing in the cache.                                     *)
(***************************************************************************)
InitBusy ==
    /\ now = 0
    /\ azure_credential = Credential
    /\ request_cache = <<>>
    /\ cache_timestamps = <<>>
    /\ request_counts = RATE_LIMIT - 1
    /\ last_reset_time = 0
    /\ phase = "serving"
    /\ loop = NoReq
    /\ pc = [r \in Req |-> "idle"]
    /\ request = [r \in Req |-> NoRequest]
    /\ frame = [r \in Req |-> NoFrame]
    /\ outcome = [r \in Req |-> NoOutcome]
    /\ events = [r \in Req |-> <<>>]
    /\ accepted = 0
    /\ probe = NoProbe

SpecBusy == InitBusy /\ [][Serve]_vars

(***************************************************************************)
(* check_rate_limit called alone, any number of times, as time passes.     *)
(* probe records the call: its return value, the time and the globals it   *)
(* found, and how many calls the current window has seen (a call that      *)
(* moves the window start is the first of its window).                     *)
(***************************************************************************)
ProbeCheckRateLimit ==
    /\ probe.calls < MaxProbes
    /\ LET rl == check_rate_limit(request_counts, last_reset_time, now)
       IN  /\ request_counts' = rl.total
           /\ last_reset_time' = rl.last
           /\ probe' = [probe EXCEPT
                  !.fn = "check_rate_limit", !.ret_bool = rl.ret, !.at = now,
                  !.total_before = request_counts,
                  !.last_before = last_reset_time,
                  !.calls = IF rl.last # last_reset_time THEN 1 ELSE @ + 1]
    /\ UNCHANGED <<now, azure_credential, request_cache, cache_timestamps,
                   phase, slotVars>>

LimiterTick ==
    /\ \E d \in LimiterTickSteps : now + d <= MaxTime /\ now' = now + d
    /\ UNCHANGED <<sharedVars, slotVars, phase, probe>>

NextLimiter ==
    \/ ProbeCheckRateLimit
    \/ LimiterTick

SpecLimiter == Init /\ [][NextLimiter]_vars

(***************************************************************************)
(* check_rate_limit called alone as time passes, with the record of the    *)
(* admissions of the last RATE_WINDOW: probe.admit_times maps every time   *)
(* less than one window length ago to the number of calls admitted then.   *)
(***************************************************************************)
ProbeBurst ==
    /\ probe.calls < MaxProbes
    /\ LET rl == check_rate_limit(request_counts, last_reset_time, now)
       IN  /\ request_counts' = rl.total
           /\ last_reset_time' = rl.last
           /\ probe' = [probe EXCEPT
                  !.fn = "check_rate_limit", !.ret_bool = rl.ret, !.at = now,
                  !.calls = IF rl.last # last_reset_time THEN 1 ELSE @ + 1,
                  !.admit_times = IF rl.ret
                                  THEN Put(@, now, GetOr0(@, now) + 1)
                                  ELSE @]
    /\ UNCHANGED <<now, azure_credential, request_cache, cache_timestamps,
                   phase, slotVars>>

\* here the clock is read in steps of a third of a rate window, so that a
\* span shorter than the window holds three moments
BurstTickSteps == {RATE_WINDOW \div 3}

BurstTick ==
    /\ \E d \in BurstTickSteps : now + d <= MaxTime /\ now' = now + d
    /\ probe' = [probe EXCEPT !.admit_times =
           [t \in {u \in DOMAIN @ : now' - u < RATE_WINDOW} |-> @[t]]]
    /\ UNCHANGED <<sharedVars, slotVars, phase>>

NextBurst ==
    \/ ProbeBurst
    \/ BurstTick

SpecBurst == Init /\ [][NextBurst]_vars

(***************************************************************************)
(* get_cached_response and cache_response called alone, in any order, as   *)
(* time passes.  probe records the call, and probe.stored the response and *)
(* the time of the latest cache_response of every key.                     *)
(***************************************************************************)
ProbeGet(k) ==
    /\ LET got == get_cached_response(request_cache, cache_timestamps, k, now)
       IN  /\ request_cache' = got.cache
           /\ cache_timestamps' = got.stamps
           /\ probe' = [probe EXCEPT !.fn = "get_cached_response", !.key = k,
                                     !.ret = got.ret, !.at = now]
    /\ UNCHANGED <<now, azure_credential, request_counts, last_reset_time,
                   phase, slotVars>>

ProbePut(k, resp) ==
    /\ LET put == cache_response(request_cache, cache_timestamps, k, resp, now)
       IN  /\ request_cache' = put.cache
           /\ cache_timestamps' = put.stamps
    /\ probe' = [probe EXCEPT
           !.fn = "cache_response", !.key = k, !.ret = NoResponse, !.at = now,
           !.stored = Put(@, k, [response |-> resp, at |-> now])]
    /\ UNCHANGED <<now, azure_credential, request_counts, last_reset_time,
                   phase, slotVars>>

NextCache ==
    \/ Tick
    \/ \E k \in CacheKeys : ProbeGet(k)
    \/ \E k \in CacheKeys : \E resp \in Responses : ProbePut(k, resp)

SpecCache == Init /\ [][NextCache]_vars

(***************************************************************************)
(* get_azure_credential and get_openai_client called alone, in any order,   *)
(* from the state after import.  probe records the object the last call    *)
(* returned, the calls made and the instances constructed so far.          *)
(***************************************************************************)
ProbeGetCredential ==
    /\ probe.cred_calls + probe.client_calls < MaxProbes
    /\ LET c == get_azure_credential(azure_credential, probe.creds_made)
       IN  /\ azure_credential' = c.cred
           /\ probe' = [probe EXCEPT !.fn = "get_azure_credential",
                                     !.obj = c.ret, !.cred_calls = @ + 1,
                                     !.creds_made = c.made]
    /\ UNCHANGED <<now, request_cache, cache_timestamps, request_counts,
                   last_reset_time, phase, slotVars>>

ProbeGetClient ==
    /\ probe.cred_calls + probe.client_calls < MaxProbes
    /\ LET c == get_openai_client(azure_credential, probe.creds_made,
                                  probe.clients_made)
       IN  /\ azure_credential' = c.cred
           /\ probe' = [probe EXCEPT !.fn = "get_openai_client",
                                     !.obj = c.ret, !.client_calls = @ + 1,
                                     !.creds_made = c.creds_made,
                                     !.clients_made = c.clients_made]
    /\ UNCHANGED <<now, request_cache, cache_timestamps, request_counts,
                   last_reset_time, phase, slotVars>>

NextClient ==
    \/ ProbeGetCredential
    \/ ProbeGetClient

SpecClient == Init /\ [][NextClient]_vars

(***************************************************************************)
(* The handler's cache key computed alone, for any two requests one after  *)
(* the other, as time passes.  probe records the request and the key of    *)
(* the last call and of the call before it.                                *)
(***************************************************************************)
KeyMessages == {"hi", "yo"}
KeyMaxTokens == {None, 0, 100, DEFAULT_MAX_TOKENS}
KeyTemperatures == {7, 10}
KeyRequests ==
    [messages : KeyMessages, model : Models, max_tokens : KeyMaxTokens,
     temperature : KeyTemperatures, stream : BOOLEAN]

ProbeKey(req) ==
    /\ probe' = [probe EXCEPT !.fn = "get_cache_key", !.req = req,
                              !.key = RequestKey(req), !.at = now,
                              !.prev_req = probe.req, !.prev_key = probe.key]
    /\ UNCHANGED <<now, sharedVars, phase, slotVars>>

NextKey ==
    \/ Tick
    \/ \E req \in KeyRequests : ProbeKey(req)

SpecKey == Init /\ [][NextKey]_vars

(***************************************************************************)
(* stream_chat_response run alone: one streaming request has been admitted *)
(* and answered with its StreamingResponse, and the server iterates the     *)
(* generator while no other request arrives.                               *)
(***************************************************************************)
StreamingRequests == {req \in ChatCompletionRequest : req.stream}

InitStream ==
    /\ now = 0
    /\ azure_credential = Credential
    /\ request_cache = <<>>
    /\ cache_timestamps = <<>>
    /\ request_counts = 1
    /\ last_reset_time = 0
    /\ phase = "serving"
    /\ loop = NoReq
    /\ pc = [r \in Req |-> IF r = 1 THEN "stream" ELSE "idle"]
    /\ request \in {[r \in Req |-> IF r = 1 THEN req ELSE NoRequest] :
                       req \in StreamingRequests}
    /\ frame = [r \in Req |->
                  IF r = 1
                  THEN [NoFrame EXCEPT !.admitted = TRUE,
                                       !.cache_key = RequestKey(request[1]),
                                       !.lookups = 1, !.clients = 1]
                  ELSE NoFrame]
    /\ outcome = [r \in Req |-> IF r = 1 THEN Ok("stream") ELSE NoOutcome]
    /\ events = [r \in Req |-> <<>>]
    /\ accepted = 1
    /\ probe = NoProbe

NextStream ==
    \/ Tick
    \/ \E r \in Req : StreamResume(r)
    \/ \E r \in Req : StreamOpenOk(r)
    \/ \E r \in Req : \E cls \in UpstreamErrors : StreamOpenFail(r, cls)
    \/ \E r \in Req : \E c \in BOOLEAN : StreamChunkUpTo(r, c, MaxStreamChunks)
    \/ \E r \in Req : StreamEnd(r)
    \/ \E r \in Req : \E cls \in UpstreamErrors : StreamFail(r, cls)

SpecStream == InitStream /\ [][NextStream]_vars

(***************************************************************************)
(* The claims.                                                             *)
(***************************************************************************)

\* C1 (SpecLimiter): counted from a fresh window and with no reset in
\* between, the n-th call of check_rate_limit returns true exactly when
\* n <= 50; an admitted call leaves the counter one higher (so it equals n),
\* a rejected call leaves the counter as it found it, at 50.
C1_FirstFiftyAdmitted ==
    probe.fn = "check_rate_limit" =>
        /\ probe.ret_bool <=> probe.calls <= 50
        /\ probe.ret_bool => request_counts = probe.calls
        /\ probe.ret_bool /\ probe.at - probe.last_before < 60 =>
               request_counts = probe.total_before + 1
        /\ ~probe.ret_bool =>
               request_counts = probe.total_before /\ request_counts = 50

\* the 51st call of a window has just been rejected
C1_Witness ==
    /\ probe.fn = "check_rate_limit"
    /\ probe.calls = 51
    /\ ~probe.ret_bool
    /\ request_counts = 50

\* C2 (SpecLimiter): a call of check_rate_limit made 60 or more after the
\* window start resets the window first (the window start becomes the time
\* of the call), is admitted and leaves the counter at 1, whatever the
\* counter was; a call made less than 60 after it leaves the window start
\* alone.
C2_ResetBeforeCeilingTest ==
    probe.fn = "check_rate_limit" =>
        IF probe.at - probe.last_before >= 60
        THEN /\ probe.ret_bool
             /\ request_counts = 1
             /\ last_reset_time = probe.at
        ELSE last_reset_time = probe.last_before

\* a call has just reset an exhausted window and was admitted
C2_Witness ==
    /\ probe.fn = "check_rate_limit"
    /\ probe.total_before = 50
    /\ probe.at - probe.last_before >= 60
    /\ probe.ret_bool
    /\ request_counts = 1

\* C3 (SpecBusy): a request the rate limiter rejects ends with status 429
\* and the detail "Too Many Requests", and no cache lookup, no client
\* construction and no upstream call is made for it.
C3_RejectedGetsTooManyRequests ==
    \A r \in Req :
        pc[r] = "done" /\ ~frame[r].admitted =>
            /\ outcome[r].status = 429
            /\ outcome[r].detail = <<"Too Many Requests">>
            /\ frame[r].lookups = 0
            /\ frame[r].clients = 0
            /\ frame[r].attempts = <<>>
            /\ frame[r].opens = 0

\* C4 (Spec): when an admitted non-streaming request looks up the cache and
\* an entry stored for its fingerprint less than 300 ago is there, the
\* request ends at once with status 200 and that very response, no client is
\* built and no upstream attempt is made for it, and the entry stays as it
\* is.
C4_SecondServedFromCache ==
    [][\A r \in Req :
          (/\ pc[r] = "lookup"
           /\ pc'[r] # "lookup"
           /\ ~request[r].stream
           /\ RequestKey(request[r]) \in DOMAIN request_cache
           /\ now - cache_timestamps[RequestKey(request[r])] < 300)
          => /\ pc'[r] = "done"
             /\ outcome'[r] = Ok(request_cache[RequestKey(request[r])])
             /\ frame'[r].clients = 0
             /\ frame'[r].attempts = <<>>
             /\ request_cache' = request_cache
             /\ cache_timestamps' = cache_timestamps]_vars

\* the second request accepted was answered from the cache, with no
\* upstream attempt
C4_Witness ==
    \E r \in Req :
        /\ pc[r] = "done"
        /\ accepted = 2
        /\ ~request[r].stream
        /\ frame[r].cached \in Responses
        /\ outcome[r] = Ok(frame[r].cached)
        /\ frame[r].attempts = <<>>

\* C5 (SpecCache): get_cached_response(k) returns the response of the
\* latest cache_response(k, r) exactly when that store was made less than
\* 300 before the lookup; otherwise it returns a miss and no entry for k is
\* left in the cache.
C5_FreshIffYoungerThan300 ==
    probe.fn = "get_cached_response" =>
        IF /\ probe.key \in DOMAIN probe.stored
           /\ probe.at - probe.stored[probe.key].at < 300
        THEN /\ probe.ret = probe.stored[probe.key].response
             /\ probe.key \in DOMAIN request_cache
             /\ request_cache[probe.key] = probe.ret
        ELSE /\ probe.ret = NoResponse
             /\ probe.key \notin DOMAIN request_cache
             /\ probe.key \notin DOMAIN cache_timestamps

\* a lookup made 300 after the store has just missed and removed the entry
C5_Witness ==
    /\ probe.fn = "get_cached_response"
    /\ probe.key \in DOMAIN probe.stored
    /\ probe.at - probe.stored[probe.key].at = 300
    /\ probe.ret = NoResponse
    /\ probe.key \notin DOMAIN request_cache

\* C6 (Spec): whatever the cache holds, an admitted request with stream =
\* true that is answered 200 is answered with the stream of the upstream
\* call, never with a response taken from the cache.
C6_StreamingNeverUsesCache ==
    \A r \in Req :
        request[r].stream /\ frame[r].admitted /\ outcome[r].status = 200 =>
            /\ outcome[r].body = "stream"
            /\ frame[r].cached = NoResponse

\* C7 (Spec): every step that adds a cache entry, or changes the response or
\* the time of one, is the successful upstream attempt of a non-streaming
\* request, storing under the request's fingerprint the response the request
\* is answered with; no step of a streaming request and no failing attempt
\* writes the cache.
C7_OnlySuccessfulNonStreamingWrites ==
    [][\A k \in DOMAIN request_cache' :
          (\/ k \notin DOMAIN request_cache
           \/ request_cache'[k] # request_cache[k]
           \/ cache_timestamps'[k] # cache_timestamps[k])
          => \E r \in Req :
                /\ ~request[r].stream
                /\ pc[r] = "call"
                /\ pc'[r] = "done"
                /\ frame[r].cache_key = k
                /\ frame'[r].attempts[Len(frame'[r].attempts)] = "ok"
                /\ outcome'[r] = Ok(request_cache'[k])
                /\ cache_timestamps'[k] = now]_vars

\* a non-streaming request whose third attempt succeeded has stored its
\* response, while the entry of the other fingerprint is older
C7_Witness ==
    \E r \in Req :
        /\ pc[r] = "done"
        /\ ~request[r].stream
        /\ frame[r].attempts = <<"raised", "raised", "ok">>
        /\ frame[r].cache_key \in DOMAIN request_cache
        /\ outcome[r] = Ok(request_cache[frame[r].cache_key])
        /\ cache_timestamps[frame[r].cache_key] = now
        /\ \E k \in DOMAIN request_cache : cache_timestamps[k] < now

\* C8 (Spec): create_chat_completion makes at most 3 upstream attempts, and
\* none after one that succeeded; a request that is over after upstream
\* attempts either succeeded on its last attempt and is answered 200, or
\* failed 3 times and is answered with an error; while it is still calling
\* or sleeping, fewer than 3 attempts have failed.
C8_AtMostThreeAttempts ==
    \A r \in Req :
        LET a == frame[r].attempts
        IN  /\ Len(a) <= 3
            /\ \A i \in 1 .. Len(a) - 1 : a[i] = "raised"
            /\ pc[r] = "done" /\ Len(a) > 0 =>
                   \/ a[Len(a)] = "ok" /\ outcome[r].status = 200
                   \/ Len(a) = 3 /\ a[3] = "raised" /\ outcome[r].status # 200
            /\ pc[r] \in {"call", "backoff"} =>
                   Len(a) < 3 /\ \A i \in 1 .. Len(a) : a[i] = "raised"
            /\ frame[r].attempt_number <= 3

\* a call that failed twice and then succeeded: 3 attempts, answered 200
C8_Witness ==
    \E r \in Req :
        /\ pc[r] = "done"
        /\ frame[r].attempts = <<"raised", "raised", "ok">>
        /\ outcome[r].status = 200

\* C9 as claimed (Spec): the waits start at 2 and double, capped at 10: no
\* wait is below 2 or above 10, and the wait before the third attempt is
\* strictly greater than the wait before the second.
C9_WaitsStrictlyIncrease ==
    \A r \in Req :
        LET w == frame[r].waits
        IN  /\ \A i \in 1 .. Len(w) : 2 <= w[i] /\ w[i] <= 10
            /\ Len(w) >= 2 => w[2] > w[1]

\* C9 as amended (Spec): no wait is below 2 or above 10 and the waits never
\* decrease, but the two waits of a call are both 2: the wait before the
\* third attempt equals the wait before the second.
C9_WaitsAreTwoAndTwo ==
    \A r \in Req :
        LET w == frame[r].waits
        IN  /\ Len(w) <= 2
            /\ \A i \in 1 .. Len(w) : 2 <= w[i] /\ w[i] <= 10
            /\ \A i \in 1 .. Len(w) : w[i] = 2
            /\ Len(w) >= 2 => w[2] = w[1]

\* a call has slept twice
C9_Witness ==
    \E r \in Req : Len(frame[r].waits) = 2 /\ frame[r].attempt_number = 3

\* C10 (Spec): when all 3 attempts fail, the exception the handler catches
\* is the exception the third attempt raised, unchanged.
C10_LastExceptionUnchanged ==
    \A r \in Req :
        pc[r] = "done" /\ frame[r].attempts = <<"raised", "raised", "raised">>
            => frame[r].exc = frame[r].raised

\* C11 (Spec): every failure of an admitted non-streaming request (the
\* client cannot be built, or all upstream attempts raise) ends the request
\* with status 429 when the message of the underlying error holds "429" or
\* "Too Many Requests", and with status 500 and that message as detail
\* otherwise.
C11_FailuresTranslated ==
    \A r \in Req :
        (/\ pc[r] = "done"
         /\ frame[r].admitted
         /\ ~request[r].stream
         /\ frame[r].exc # NoException)
        => LET msg == IF frame[r].exc.cls = "RetryError"
                      THEN frame[r].raised.text
                      ELSE frame[r].exc.text
           IN  IF Contains(msg, "429") \/ Contains(msg, "Too Many Requests")
               THEN outcome[r].status = 429
               ELSE outcome[r].status = 500 /\ outcome[r].detail = msg

\* C12 (SpecStream): while the upstream stream has raised nothing, the events
\* sent are one data event for every chunk read that has a choice, in the
\* order of the chunks, and nothing for a chunk without choices; when the
\* stream is over they are followed by exactly one "data: [DONE]" event,
\* which is the last event.
C12_OneEventPerChunkThenDone ==
    \A r \in Req :
        request[r].stream /\ frame[r].exc = NoException =>
            LET c == frame[r].chunks
                idx == SelectSeq([i \in 1 .. Len(c) |-> i], LAMBDA i : c[i])
                data == [j \in 1 .. Len(idx) |-> DataEvent(idx[j])]
            IN  /\ Len(c) = frame[r].received
                /\ events[r] = IF pc[r] = "done"
                               THEN Append(data, DoneEvent)
                               ELSE data

\* a stream of 3 chunks with choices is over: 3 data events, then [DONE]
C12_Witness ==
    \E r \in Req :
        /\ pc[r] = "done"
        /\ frame[r].chunks = <<TRUE, TRUE, TRUE>>
        /\ events[r] = <<DataEvent(1), DataEvent(2), DataEvent(3), DoneEvent>>

\* C13 (SpecStream): when the upstream call of a streaming request raises,
\* at the opening of the stream or after some chunks, the generator is over
\* with exactly one error event carrying the message, sent after the data
\* events of the chunks read before and followed by nothing (no [DONE], no
\* further data event), and the response keeps its status 200.
C13_OneErrorEventThenEnd ==
    \A r \in Req :
        request[r].stream /\ frame[r].exc # NoException =>
            LET c == frame[r].chunks
                idx == SelectSeq([i \in 1 .. Len(c) |-> i], LAMBDA i : c[i])
                data == [j \in 1 .. Len(idx) |-> DataEvent(idx[j])]
            IN  /\ pc[r] = "done"
                /\ \E s \in Str(frame[r].exc) :
                       events[r] = Append(data, ErrorEvent(s))
                /\ outcome[r] = Ok("stream")
                /\ frame[r].opens = 1

\* the stream failed after two data events were sent
C13_Witness ==
    \E r \in Req :
        /\ frame[r].exc # NoException
        /\ frame[r].chunks = <<TRUE, TRUE>>
        /\ Len(events[r]) = 3
        /\ events[r][3] = ErrorEvent(frame[r].exc.text)

\* C14 (Spec): no request is handled while the startup self-check has not
\* succeeded, the serving state is entered only from a self-check that
\* succeeded, and once the self-check has raised the process stays failed:
\* it never serves.
C14_NoServiceBeforeSelfCheck ==
    [][/\ phase = "failed" => phase' = "failed"
       /\ phase' = "serving" => phase \in {"starting", "serving"}
       /\ phase # "serving" =>
              /\ accepted' = 0
              /\ loop' = NoReq
              /\ \A r \in Req : pc'[r] = "idle"]_vars

\* the self-check has raised: startup is aborted, with no request handled
C14_Witness ==
    /\ phase = "failed"
    /\ accepted = 0
    /\ \A r \in Req : pc[r] = "idle"

\* C15 (SpecClient): from an empty credential cache, the first call that
\* needs the credential constructs it, no later call constructs another one,
\* and every call of get_azure_credential returns that first instance.
C15_CredentialConstructedOnce ==
    /\ probe.cred_calls + probe.client_calls = 0 =>
           probe.creds_made = 0 /\ azure_credential = NoCredential
    /\ probe.cred_calls + probe.client_calls > 0 =>
           probe.creds_made = 1 /\ azure_credential = ClientSecretCredential(1)
    /\ probe.fn = "get_azure_credential" =>
           probe.obj = ClientSecretCredential(1)

\* the third call of get_azure_credential has returned the first instance
C15_Witness ==
    /\ probe.fn = "get_azure_credential"
    /\ probe.cred_calls = 3
    /\ probe.creds_made = 1
    /\ probe.obj = ClientSecretCredential(1)

C17_KeyOfResolvedFields ==
    probe.fn = "get_cache_key" /\ probe.prev_req # NoRequest =>
        LET a == probe.prev_req
            b == probe.req
            resolved(x) == IF x = None THEN 1000 ELSE x
        IN  probe.key = probe.prev_key
            <=> /\ a.messages = b.messages
                /\ a.model = b.model
                /\ a.temperature = b.temperature
                /\ resolved(a.max_tokens) = resolved(b.max_tokens)

\* C18 (SpecBusy): with other requests in flight, every step leaves the
\* rate counter at 50 or below, and the counter counts the admissions of
\* the window one by one: a step that keeps the window start adds to the
\* counter exactly the number of requests it admits (one for the step of an
\* admitted request, none for any other step), and a step that moves the
\* window start admits one request and leaves the counter at 1.  So no
\* admission is lost, none is counted twice, and at most 50 requests are
\* admitted between two resets.
C18_CounterCountsAdmissions ==
    [][LET admits == {r \in Req : /\ pc[r] = "idle"
                                  /\ pc'[r] # "idle"
                                  /\ frame'[r].admitted}
       IN  /\ request_counts' <= 50
           /\ Cardinality(admits) <= 1
           /\ IF last_reset_time' = last_reset_time
              THEN request_counts' = request_counts + Cardinality(admits)
              ELSE request_counts' = 1 /\ Cardinality(admits) = 1]_vars

\* while an admitted streaming request is in flight at a full counter,
\* another request has been rejected
C18_Witness ==
    \E r, q \in Req :
        /\ r # q
        /\ pc[q] \in {"stream", "suspended"}
        /\ frame[q].admitted
        /\ pc[r] = "done"
        /\ ~frame[r].admitted
        /\ request_counts = 50

\* C19 (Spec): while a non-streaming request sleeps between two attempts,
\* the server can take another request through check_rate_limit: where a
\* request slot is free and the server still accepts requests, the first
\* step of the handler is enabled for a new request.
C19_BackoffLetsOthersRun ==
    \A r \in Req :
        (/\ pc[r] = "backoff"
         /\ accepted < MaxRequests
         /\ \E q \in Req : pc[q] = "idle")
        => ENABLED (\E q \in Req : \E req \in ChatCompletionRequest :
                       Admit(q, req))

C21_CountedOnceAtAdmission ==
    [][LET starts == {r \in Req : pc[r] = "idle" /\ pc'[r] # "idle"}
       IN  IF starts = {}
           THEN /\ request_counts' = request_counts
                /\ last_reset_time' = last_reset_time
           ELSE \A r \in starts :
                    IF frame'[r].admitted
                    THEN \/ /\ request_counts' = request_counts + 1
                            /\ last_reset_time' = last_reset_time
                         \/ /\ request_counts' = 1
                            /\ last_reset_time' = now
                    ELSE /\ request_counts' = request_counts
                         /\ last_reset_time' = last_reset_time]_vars

\* a request that took 3 upstream attempts and stored its response is
\* over, and the counter holds the one admission of the run
C21_Witness ==
    \E r \in Req :
        /\ pc[r] = "done"
        /\ frame[r].attempts = <<"raised", "raised", "ok">>
        /\ frame[r].cache_key \in DOMAIN request_cache
        /\ accepted = 1
        /\ request_counts = 1

\* C22 (SpecBurst): the calls admitted within any span shorter than 60 are
\* never more than 2 x 50 = 100, whatever the counter and the window start
\* are.
C22_AtMostTwiceTheCeiling ==
    LET times == DOMAIN probe.admit_times
        Sum[S \in SUBSET times] ==
            IF S = {} THEN 0
            ELSE LET t == CHOOSE u \in S : TRUE
                 IN  probe.admit_times[t] + Sum[S \ {t}]
    IN  /\ \A t \in times : now - t < 60 /\ probe.admit_times[t] <= 50
        /\ Sum[times] <= 100

\* 50 calls were admitted just before a reset and 50 more from the reset
\* on: 100 admissions less than 60 apart
C22_Witness ==
    \E t \in DOMAIN probe.admit_times :
        /\ t < now
        /\ now - t < 60
        /\ probe.admit_times[t] = 50
        /\ now \in DOMAIN probe.admit_times
        /\ probe.admit_times[now] = 50
        /\ last_reset_time = now

\* C23 as claimed (Spec): an admitted streaming request that is over has
\* made exactly one upstream streaming call.
C23_StreamCalledExactlyOnce ==
    \A r \in Req :
        request[r].stream /\ frame[r].admitted /\ pc[r] = "done" =>
            frame[r].opens = 1

\* C23 as amended (Spec): a streaming request makes at most one upstream
\* streaming call and no call through the retry wrapper, no backoff wait
\* included; it has made exactly one once its generator has run (it is
\* reading chunks, is suspended after an event, or is over with events
\* sent), also when the opening or a read has failed, and none where the
\* handler ended before the stream was built.
C23_StreamCalledAtMostOnce ==
    \A r \in Req :
        request[r].stream =>
            /\ frame[r].opens <= 1
            /\ frame[r].attempts = <<>>
            /\ frame[r].waits = <<>>
            /\ frame[r].attempt_number = 0
            /\ (pc[r] \in {"iterate", "suspended"} \/ events[r] # <<>>) =>
                   frame[r].opens = 1
            /\ (pc[r] = "done" /\ events[r] = <<>>) =>
                   frame[r].opens = 0 /\ outcome[r].body # "stream"

\* the opening of the stream has failed: one upstream call, one error
\* event, no second call
C23_Witness ==
    \E r \in Req :
        /\ request[r].stream
        /\ pc[r] = "done"
        /\ frame[r].received = 0
        /\ frame[r].exc \in {UpstreamException(cls) : cls \in UpstreamErrors}
        /\ Len(events[r]) = 1
        /\ frame[r].opens = 1

\* C24 (SpecLive): every request whose handler has started is over in the
\* end, and a request that is over has exactly one outcome: a non-streaming
\* answer with status 200, 429 or 500 and no event, or the 200 streaming
\* response whose events are the data events of its chunks and then one
\* terminal event, [DONE] or an error event; no request has made more than
\* 3 upstream attempts or slept more than twice.
C24_EveryRequestTerminates ==
    /\ [](\A r \in Req :
            /\ Len(frame[r].attempts) <= 3
            /\ Len(frame[r].waits) <= 2
            /\ pc[r] = "done" =>
                   LET c == frame[r].chunks
                       idx == SelectSeq([i \in 1 .. Len(c) |-> i],
                                        LAMBDA i : c[i])
                       data == [j \in 1 .. Len(idx) |-> DataEvent(idx[j])]
                   IN  IF outcome[r].body = "stream"
                       THEN /\ outcome[r].status = 200
                            /\ IF frame[r].exc = NoException
                               THEN events[r] = Append(data, DoneEvent)
                               ELSE \E s \in Str(frame[r].exc) :
                                      events[r] = Append(data, ErrorEvent(s))
                       ELSE /\ outcome[r].status \in {200, 429, 500}
                            /\ outcome[r].status = 200 <=>
                                   outcome[r].body \in Responses
                            /\ events[r] = <<>>)
    /\ \A r \in Req : (pc[r] \notin {"idle", "done"}) ~> (pc[r] = "done")

\* a request is over after 3 failed attempts and 2 sleeps, answered 500
C24_Witness ==
    \E r \in Req :
        /\ pc[r] = "done"
        /\ frame[r].attempts = <<"raised", "raised", "raised">>
        /\ Len(frame[r].waits) = 2
        /\ outcome[r].status = 500

=============================================================================
